---- MODULE Spec2Model ----
(***************************************************************************)
(* Clotex_api backend: the batch endpoint process_images and the streaming *)
(* endpoint ws_process of backend/src/api/image.py, with the core calls    *)
(* they make (backend/src/core).  One uploaded batch and one streaming     *)
(* session are served by the same event loop over the same images.         *)
(*                                                                         *)
(* The model follows the handlers as written.  Name resolution at import   *)
(* time (core/__init__.py does not export separate_color_layers_batch) is  *)
(* not part of the state machine: the handlers are modelled as if their    *)
(* imports resolved.                                                       *)
(*                                                                         *)
(* Specifications:                                                         *)
(*   Spec          the two handlers, upload first, then the session        *)
(*   SpecLoop      the upload and a liveness probe on the same event loop  *)
(*   SpecDownload  the upload and one download request                     *)
(*   SpecLayers    separate_color_layers on one image                      *)
(*   SpecBatch     separate_color_layers_batch on a list of images         *)
(*   SpecSelect    auto_kmeans                                             *)
(*   SpecAnchors   add_anchors                                             *)
(*   SpecAnnotate  add_anchors_to_layers, awaited                          *)
(*   SpecExport    the export block of process_images on annotated layers  *)
(***************************************************************************)
EXTENDS Integers, Sequences, FiniteSets

\* ------------------------------------------------------------------ bounds
MaxFiles == 2     \* images of one request / one streaming session
MaxLayers == 1    \* colour layers the decomposition of one image yields
MaxPixels == 3    \* pixels of an image handed to separate_color_layers
MaxRegions == 2   \* images in one call of separate_color_layers_batch
MaxInertia == 1   \* largest inertia MiniBatchKMeans reports (0..MaxInertia)
MaxSide == 5      \* largest width and height of an image given to add_anchors
MaxParam == 2     \* largest margin, cross_size and outline_width
MaxItems == 3     \* layers in one call of add_anchors_to_layers
MaxExported == 2  \* annotated layers of one image handed to the export

\* ------------------------------------------------------------------ inputs
\* What the environment does to one image: the call that raises for it, if
\* any.  "read" is upfile.file.read(), "decode" is Image.open(..).convert,
\* "write" is _png_bytes/_thumb_b64/zipf.writestr of the export loop.
\* "classify_mask" is an error raised for one region inside classify_masks
\* (load_and_preprocess or predict_fn of that mask).
Faults ==
    {"none", "read", "decode", "segment", "classify", "classify_mask",
     "upscale", "color_separate", "add_anchors", "write"}

ImageInputs == [fault : Faults, layers : 1..MaxLayers]

FileLists == UNION {[1..n -> ImageInputs] : n \in 1..MaxFiles}

VARIABLES
    files,               \* the images, shared by the request and the session
    \* ---- process_images (one request)
    b_pc,                \* position of the handler
    file_index,          \* enumerate(files, start=1)
    current_step,        \* current_step
    b_layers,            \* layers (result of separate_color_layers_batch)
    b_final,             \* final (result of add_anchors_to_layers(layers))
    overall_results,     \* overall_results
    per_file_errors,     \* per_file_errors
    zipf,                \* entries written to the archive
    zip_closed,          \* the with-block of the archive has been left
    response,            \* what the handler returned or raised
    b_log,               \* the stage blocks entered, in order (history)
    \* ---- ws_process (one session)
    ws_pc,
    ws_link,             \* the client side of the connection
    ws_index,            \* index
    ws_current_step,     \* current_step ("unbound" before the first image)
    ws_overall_results,
    ws_per_file_errors,
    ws_zipf,
    ws_zip_closed,
    ws_sent,             \* messages delivered to the client, in order
    ws_summary,          \* the final summary the handler built
    ws_log,
    \* ---- the event loop
    probe,               \* a GET /health/live request: none, pending, served
    \* ---- separate_color_layers_batch (one call)
    d_images,            \* images: one image or a list; an image is its
                         \* number of pixels
    d_auto_k,            \* auto_k
    d_pc,                \* position of the call
    d_idx,               \* images of the list done so far
    d_km,                \* what KMeans.fit_predict gave for a single image
    d_results,           \* results
    d_out,               \* what the call returned or raised
    \* ---- auto_kmeans (one call)
    s_k_max,             \* k_max
    s_inertia,           \* inertia, one entry per k in k_min..k_max
    s_pc,
    s_out,               \* what the call returned or raised
    \* ---- add_anchors (one call)
    a_in,                \* w, h of the image and margin, cross_size,
                         \* outline_width
    a_pc,
    a_i,                 \* positions of the loop done so far
    a_marks,             \* the crosses drawn, in order
    \* ---- add_anchors_to_layers (one awaited call)
    l_layers,            \* layers
    l_pc,
    l_i,                 \* items of the loop done so far
    l_result,            \* result
    l_out,               \* what the call returned or raised
    \* ---- the export of process_images, given the annotated layers
    x_files,             \* per file: file_name, final, and the write fault
    x_pc,
    x_index,             \* file_index
    x_idx,               \* layers of the current file written so far
    x_encoded,           \* encoded_layers
    x_zipf,              \* entries written to the archive, in order
    x_results,           \* overall_results
    x_errors,            \* per_file_errors
    \* ---- download_processed (one request)
    dl_pc,               \* none, pending, served
    dl_file_id,          \* file_id
    dl_existed,          \* whether the archive file was there when served
    dl_response          \* what the handler returned or raised

bvars == <<b_pc, file_index, current_step, b_layers, b_final, overall_results,
           per_file_errors, zipf, zip_closed, response, b_log>>

wsvars == <<ws_pc, ws_link, ws_index, ws_current_step, ws_overall_results,
            ws_per_file_errors, ws_zipf, ws_zip_closed, ws_sent, ws_summary,
            ws_log>>

\* Variables that are not of the two handlers.
dvars == <<d_images, d_auto_k, d_pc, d_idx, d_km, d_results, d_out>>

svars == <<s_k_max, s_inertia, s_pc, s_out>>

avars == <<a_in, a_pc, a_i, a_marks>>

lvars == <<l_layers, l_pc, l_i, l_result, l_out>>

xvars == <<x_files, x_pc, x_index, x_idx, x_encoded, x_zipf, x_results,
           x_errors>>

dlvars == <<dl_pc, dl_file_id, dl_existed, dl_response>>

restvars == <<probe, dvars, svars, avars, lvars, xvars, dlvars>>

vars == <<files, bvars, wsvars, restvars>>

\* ------------------------------------------------------------- process_images
\* steps (image.py:79)
steps_shifted ==
    <<"load_image", "segment", "classify", "upscale", "color_separate",
      "add_anchors", "export_zip", "export_zip">>

steps ==
    <<"load_image", "preprocess", "segment", "classify", "upscale",
      "color_separate", "add_anchors", "export_zip">>

\* The order of the stage blocks inside the try (image.py:92-150).
NextBlockSwapped(block) ==
    CASE block = "load_image" -> "segment"
      [] block = "segment" -> "upscale"
      [] block = "upscale" -> "classify"
      [] block = "classify" -> "color_separate"
      [] block = "color_separate" -> "add_anchors"
      [] block = "add_anchors" -> "export_zip"
      [] OTHER -> "next_file"

NextBlock(block) ==
    CASE block = "load_image" -> "segment"
      [] block = "segment" -> "classify"
      [] block = "classify" -> "upscale"
      [] block = "upscale" -> "color_separate"
      [] block = "color_separate" -> "add_anchors"
      [] block = "add_anchors" -> "export_zip"
      [] OTHER -> "next_file"

\* per_file_errors.append({...}) of the except block (image.py:156-161).
RecordErrorDropped(errors, image, step) == errors

RecordErrorFirst(errors, image, step) ==
    <<[image |-> image, step |-> step]>> \o errors

RecordError(errors, image, step) ==
    Append(errors, [image |-> image, step |-> step])

\* Where control goes after the except block: "# continue to next file"
\* (image.py:153-162).
ExceptAborts == "respond"

ExceptContinues == "next_file"

\* add_anchors_to_layers is declared `async def` (anchor.py:136) and is
\* called without await (image.py:129): the call runs nothing of its body
\* and evaluates to a coroutine object.
add_anchors_to_layers_awaited(layers) == [kind |-> "list", layers |-> layers]

add_anchors_to_layers(layers) == [kind |-> "coroutine", layers |-> layers]

\* enumerate(final, start=1) (image.py:135) needs an iterable.
Iterable(value) == value.kind = "list"

\* Archive entries of one image: layer_<n>_<hex>.png for n = 1..L, then
\* manifest.json (entry 0) (image.py:135-148).
LayerEntries(image, n) == [k \in 1..n |-> [image |-> image, entry |-> k]]

ManifestEntry(image) == [image |-> image, entry |-> 0]

\* The status of the returned body (image.py:164-169).
BatchStatusNoAllFailed(results, errors) ==
    IF errors # <<>> THEN "partial_success" ELSE "success"

BatchStatus(results, errors) ==
    IF results = <<>> THEN "failed"
    ELSE IF errors # <<>> THEN "partial_success" ELSE "success"

\* separate_color_layers_batch(images, auto_k) has two required parameters
\* (layer_builder.py:111-114); process_images passes two arguments
\* (image.py:123) and ws_process passes one (image.py:258).  A call binds
\* only with every required parameter given, otherwise it raises TypeError.
SeparateParams == 2

BatchSeparateArgs == 2

WsSeparateArgs == 1

CallBinds(args, params) == args = params

\* What the handler hands back: HTTPException(500) carrying the error
\* records, or the body with both lists (image.py:164-174).
Response(results, errors) ==
    IF BatchStatus(results, errors) = "failed"
    THEN [kind |-> "HTTPException", status |-> "failed", results |-> <<>>,
          errors |-> errors]
    ELSE [kind |-> "body", status |-> BatchStatus(results, errors),
          results |-> results, errors |-> errors]

NoValue == [kind |-> "none"]

\* The except block of one image (image.py:153-162).
BatchFail(step) ==
    /\ per_file_errors' = RecordError(per_file_errors, file_index, step)
    /\ b_pc' = ExceptContinues
    /\ UNCHANGED <<overall_results, response, zip_closed>>

\* process_images up to the for loop (image.py:73-83).  The two handlers
\* share no state: the upload is served first and the session is accepted
\* after it, which keeps every pair of outcomes and spares the
\* interleavings.
B_Begin ==
    /\ b_pc = "idle"
    /\ ws_pc = "accept"
    /\ b_pc' = "next_file"
    /\ UNCHANGED <<file_index, current_step, b_layers, b_final, overall_results,
                   per_file_errors, zipf, zip_closed, response, b_log>>
    /\ UNCHANGED <<files, wsvars, restvars>>

\* The head of the for loop; leaving it closes the archive (image.py:83-89).
B_NextFile ==
    /\ b_pc = "next_file"
    /\ IF file_index < Len(files)
       THEN /\ file_index' = file_index + 1
            /\ current_step' = steps[1]
            /\ b_pc' = "load_image"
            /\ UNCHANGED zip_closed
       ELSE /\ zip_closed' = TRUE
            /\ b_pc' = "respond"
            /\ UNCHANGED <<file_index, current_step>>
    /\ b_layers' = NoValue
    /\ b_final' = NoValue
    /\ UNCHANGED <<overall_results, per_file_errors, zipf, response, b_log>>
    /\ UNCHANGED <<files, wsvars, restvars>>

\* load & normalize image (image.py:92-96).
B_Load ==
    /\ b_pc = "load_image"
    /\ b_log' = Append(b_log, <<file_index, "load_image">>)
    /\ IF files[file_index].fault = "read"
       THEN /\ BatchFail(current_step)
            /\ UNCHANGED current_step
       ELSE /\ current_step' = steps[2]
            /\ IF files[file_index].fault = "decode"
               THEN BatchFail(steps[2])
               ELSE /\ b_pc' = NextBlock("load_image")
                    /\ UNCHANGED <<overall_results, per_file_errors, response,
                                   zip_closed>>
    /\ UNCHANGED <<file_index, b_layers, b_final, zipf>>
    /\ UNCHANGED <<files, wsvars, restvars>>

\* Whether an error raised inside the call of a block leaves the call.
\* mask_image and upscale_pil re-raise the error of a single region
\* (mask_image.py:102-104, upscaler.py:86-88); classify_masks logs the error
\* of a single mask and goes on with the next one (classify.py:142-144).
Escapes(block, fault) ==
    CASE fault = "classify_mask" -> FALSE
      [] OTHER -> fault = block

\* A stage block that calls one external collaborator (image.py:98-118).
BatchCall(block, stepNo) ==
    /\ b_pc = block
    /\ b_log' = Append(b_log, <<file_index, block>>)
    /\ current_step' = steps[stepNo]
    /\ IF Escapes(block, files[file_index].fault)
       THEN BatchFail(steps[stepNo])
       ELSE /\ b_pc' = NextBlock(block)
            /\ UNCHANGED <<overall_results, per_file_errors, response,
                           zip_closed>>
    /\ UNCHANGED <<file_index, b_layers, b_final, zipf>>
    /\ UNCHANGED <<files, wsvars, restvars>>

B_Segment == BatchCall("segment", 3)

B_Classify == BatchCall("classify", 4)

B_Upscale == BatchCall("upscale", 5)

\* color separation (image.py:120-124).
B_ColorSeparate ==
    /\ b_pc = "color_separate"
    /\ b_log' = Append(b_log, <<file_index, "color_separate">>)
    /\ current_step' = steps[6]
    /\ IF \/ ~CallBinds(BatchSeparateArgs, SeparateParams)
          \/ files[file_index].fault = "color_separate"
       THEN /\ BatchFail(steps[6])
            /\ UNCHANGED b_layers
       ELSE /\ b_layers' = [kind |-> "list", layers |-> files[file_index].layers]
            /\ b_pc' = NextBlock("color_separate")
            /\ UNCHANGED <<overall_results, per_file_errors, response,
                           zip_closed>>
    /\ UNCHANGED <<file_index, b_final, zipf>>
    /\ UNCHANGED <<files, wsvars, restvars>>

\* anchors (image.py:126-130).  The body of add_anchors_to_layers, and with
\* it any error of add_anchors, runs only if the call yields its result.
B_AddAnchors ==
    /\ b_pc = "add_anchors"
    /\ b_log' = Append(b_log, <<file_index, "add_anchors">>)
    /\ current_step' = steps[7]
    /\ LET final == add_anchors_to_layers(b_layers.layers)
       IN  IF Iterable(final) /\ files[file_index].fault = "add_anchors"
           THEN /\ BatchFail(steps[7])
                /\ UNCHANGED b_final
           ELSE /\ b_final' = final
                /\ b_pc' = NextBlock("add_anchors")
                /\ UNCHANGED <<overall_results, per_file_errors, response,
                               zip_closed>>
    /\ UNCHANGED <<file_index, b_layers, zipf>>
    /\ UNCHANGED <<files, wsvars, restvars>>

\* export: PNG entries, manifest, then the success record (image.py:132-151).
\* A write fault raises after the first PNG entry has been written.
B_Export ==
    /\ b_pc = "export_zip"
    /\ b_log' = Append(b_log, <<file_index, "export_zip">>)
    /\ current_step' = steps[8]
    /\ IF ~Iterable(b_final)
       THEN /\ BatchFail(steps[8])
            /\ UNCHANGED zipf
       ELSE IF files[file_index].fault = "write"
       THEN /\ BatchFail(steps[8])
            /\ zipf' = zipf \o LayerEntries(file_index, 1)
       ELSE /\ zipf' = zipf \o LayerEntries(file_index, b_final.layers)
                            \o <<ManifestEntry(file_index)>>
            /\ overall_results' =
                   Append(overall_results,
                          [image |-> file_index, layers |-> b_final.layers])
            /\ b_pc' = NextBlock("export_zip")
            /\ UNCHANGED <<per_file_errors, response, zip_closed>>
    /\ UNCHANGED <<file_index, b_layers, b_final>>
    /\ UNCHANGED <<files, wsvars, restvars>>

\* After the loop: HTTP 500 when nothing succeeded, else the body
\* (image.py:164-174).
B_Respond ==
    /\ b_pc = "respond"
    /\ response' = Response(overall_results, per_file_errors)
    /\ b_pc' = "done"
    /\ UNCHANGED <<file_index, current_step, b_layers, b_final, overall_results,
                   per_file_errors, zipf, zip_closed, b_log>>
    /\ UNCHANGED <<files, wsvars, restvars>>

BatchNext ==
    \/ B_Begin
    \/ B_NextFile
    \/ B_Load
    \/ B_Segment
    \/ B_Classify
    \/ B_Upscale
    \/ B_ColorSeparate
    \/ B_AddAnchors
    \/ B_Export
    \/ B_Respond

\* ----------------------------------------------------------------- ws_process
\* steps (image.py:211)
ws_steps ==
    <<"load_image", "segment", "classify", "upscale", "color_separate",
      "add_anchors", "export_zip">>

\* The successor of a step in the session's sequence (image.py:231-296).
WsNextStep(step) ==
    CASE step = "load_image" -> ws_steps[2]
      [] step = "segment" -> ws_steps[3]
      [] step = "classify" -> ws_steps[4]
      [] step = "upscale" -> ws_steps[5]
      [] step = "color_separate" -> ws_steps[6]
      [] step = "add_anchors" -> ws_steps[7]
      [] OTHER -> "completed"

\* "progress" of the message sent when a step starts (image.py:232-295).
ProgressUnordered(step) ==
    CASE step = "load_image" -> 10
      [] step = "segment" -> 50
      [] step = "classify" -> 30
      [] step = "upscale" -> 70
      [] step = "color_separate" -> 85
      [] step = "add_anchors" -> 95
      [] OTHER -> 100

Progress(step) ==
    CASE step = "load_image" -> 10
      [] step = "segment" -> 30
      [] step = "classify" -> 50
      [] step = "upscale" -> 70
      [] step = "color_separate" -> 85
      [] step = "add_anchors" -> 95
      [] OTHER -> 100

\* Steps announced by a send_json before they run: all but the export
\* (image.py:265-266).
Announced(step) == step # "export_zip"

\* The environment fault that a session step can meet ("read" has no
\* counterpart: the bytes arrive in the message).
WsFaultOf(step) == IF step = "load_image" THEN "decode"
                   ELSE IF step = "export_zip" THEN "write" ELSE step

\* What a send_json does: delivered while the client is there; once the
\* client is gone the server either raises or discards the message.
SendOutcomes == IF ws_link = "open" THEN {"sent"} ELSE {"raised", "dropped"}

Deliver(outcome, msg) == IF outcome = "sent" THEN <<msg>> ELSE <<>>

\* `with zipfile.ZipFile(zip_path, "w") as zipf` (image.py:215): the archive
\* is closed when the block is left, by break or by an exception.
WithExitLeaks(closed) == closed

WithExit(closed) == TRUE

\* The status of the final summary (image.py:316-329).
WsStatus(results, errors) == IF results = <<>> THEN "failed" ELSE "success"

\* The event loop runs one handler at a time, and process_images never
\* awaits (image.py:63-181): nothing else is served while it runs.
LoopFree == b_pc \in {"idle", "done"}

\* The except block of one image, the outer except and the finally
\* (image.py:298-313, 331-340).  `first` are the messages delivered by the
\* step before it raised.
WsFail(step, first) ==
    /\ ws_per_file_errors' = RecordError(ws_per_file_errors, ws_index, step)
    /\ \E o \in SendOutcomes :
         /\ ws_sent' = ws_sent \o first
                \o Deliver(o, [kind |-> "error", image |-> ws_index,
                               stage |-> step, progress |-> 0])
         /\ IF o = "raised"
            THEN /\ ws_pc' = "closed"
                 /\ ws_zip_closed' = WithExit(ws_zip_closed)
                 /\ ws_summary' = [kind |-> "fatal_error"]
            ELSE /\ ws_pc' = "receive"
                 /\ UNCHANGED <<ws_zip_closed, ws_summary>>

\* websocket.accept() and the "connected" message (image.py:201-216).
W_Accept ==
    /\ LoopFree
    /\ b_pc = "done"
    /\ ws_pc = "accept"
    /\ ws_pc' = "receive"
    /\ ws_sent' = Append(ws_sent, [kind |-> "connected", image |-> 0,
                                   stage |-> "connected", progress |-> 0])
    /\ UNCHANGED <<ws_link, ws_index, ws_current_step, ws_overall_results,
                   ws_per_file_errors, ws_zipf, ws_zip_closed, ws_summary,
                   ws_log>>
    /\ UNCHANGED <<files, bvars, restvars>>

\* The client goes away.
ClientDisconnect ==
    /\ LoopFree
    /\ ws_pc \notin {"accept", "closed"}
    /\ ws_link = "open"
    /\ ws_link' = "gone"
    /\ UNCHANGED <<ws_pc, ws_index, ws_current_step, ws_overall_results,
                   ws_per_file_errors, ws_zipf, ws_zip_closed, ws_sent,
                   ws_summary, ws_log>>
    /\ UNCHANGED <<files, bvars, restvars>>

\* message = await websocket.receive() (image.py:219-231): a disconnect
\* leaves the loop and closes the archive, a binary frame is the next image.
W_Receive ==
    /\ LoopFree
    /\ ws_pc = "receive"
    /\ IF ws_link = "gone"
       THEN /\ ws_pc' = "summary"
            /\ ws_zip_closed' = WithExit(ws_zip_closed)
            /\ UNCHANGED <<ws_index, ws_current_step>>
       ELSE /\ ws_index < Len(files)
            /\ ws_index' = ws_index + 1
            /\ ws_current_step' = ws_steps[1]
            /\ ws_pc' = "stage"
            /\ UNCHANGED ws_zip_closed
    /\ UNCHANGED <<ws_link, ws_overall_results, ws_per_file_errors, ws_zipf,
                   ws_sent, ws_summary, ws_log>>
    /\ UNCHANGED <<files, bvars, restvars>>

\* Whether the call of a step raises for the current image
\* (image.py:233-276).
WsStepRaises(step) ==
    \/ Escapes(WsFaultOf(step), files[ws_index].fault)
         /\ step \notin {"add_anchors", "export_zip"}
    \/ step = "color_separate" /\ ~CallBinds(WsSeparateArgs, SeparateParams)
    \/ step = "add_anchors"
         /\ Iterable(add_anchors_to_layers(files[ws_index].layers))
         /\ files[ws_index].fault = "add_anchors"
    \/ step = "export_zip"
         /\ (~Iterable(add_anchors_to_layers(files[ws_index].layers))
               \/ files[ws_index].fault = "write")

\* Entries the export has written when it ends (image.py:268-289).
WsExportWrites(step) ==
    IF step # "export_zip"
         \/ ~Iterable(add_anchors_to_layers(files[ws_index].layers))
    THEN <<>>
    ELSE IF files[ws_index].fault = "write"
    THEN LayerEntries(ws_index, 1)
    ELSE LayerEntries(ws_index, files[ws_index].layers)
             \o <<ManifestEntry(ws_index)>>

\* One step of one image: the progress message, then the call; after the
\* export, the success record and the "completed" message, whose failure
\* is handled by the same except block (image.py:231-313).
W_Stage ==
    /\ LoopFree
    /\ ws_pc \in {"stage", "completed"}
    /\ LET step == IF ws_pc = "completed" THEN "completed"
                   ELSE ws_current_step
           msg == [kind |-> "progress", image |-> ws_index, stage |-> step,
                   progress |-> Progress(step)]
       IN  /\ ws_log' = IF step = "completed" THEN ws_log
                        ELSE Append(ws_log, <<ws_index, step>>)
           /\ \E o \in IF Announced(step) THEN SendOutcomes ELSE {"none"} :
                IF o = "raised"
                THEN /\ WsFail(ws_current_step, <<>>)
                     /\ UNCHANGED <<ws_zipf, ws_overall_results,
                                    ws_current_step>>
                ELSE /\ ws_zipf' = ws_zipf \o WsExportWrites(step)
                     /\ IF WsStepRaises(step)
                        THEN /\ WsFail(step, Deliver(o, msg))
                             /\ UNCHANGED <<ws_overall_results,
                                            ws_current_step>>
                        ELSE /\ ws_sent' = ws_sent \o Deliver(o, msg)
                             /\ ws_current_step' =
                                    IF step \in {"export_zip", "completed"}
                                    THEN ws_current_step
                                    ELSE WsNextStep(step)
                             /\ ws_pc' =
                                    CASE step = "export_zip" -> "completed"
                                      [] step = "completed" -> "receive"
                                      [] OTHER -> "stage"
                             /\ ws_overall_results' =
                                    IF step = "export_zip"
                                    THEN Append(ws_overall_results,
                                                [image |-> ws_index,
                                                 layers |->
                                                    files[ws_index].layers])
                                    ELSE ws_overall_results
                             /\ UNCHANGED <<ws_per_file_errors, ws_zip_closed,
                                            ws_summary>>
    /\ UNCHANGED <<ws_link, ws_index>>
    /\ UNCHANGED <<files, bvars, restvars>>

\* The final summary, the outer except and the finally (image.py:315-340).
W_Summary ==
    /\ LoopFree
    /\ ws_pc = "summary"
    /\ \E o \in SendOutcomes :
         /\ ws_summary' = [kind |-> "summary",
                           status |-> WsStatus(ws_overall_results,
                                               ws_per_file_errors),
                           results |-> ws_overall_results,
                           errors |-> ws_per_file_errors,
                           send |-> o]
         /\ ws_sent' = ws_sent
                \o Deliver(o, [kind |-> "summary", image |-> 0,
                               stage |-> "summary", progress |-> 0])
    /\ ws_pc' = "closed"
    /\ UNCHANGED <<ws_link, ws_index, ws_current_step, ws_overall_results,
                   ws_per_file_errors, ws_zipf, ws_zip_closed, ws_log>>
    /\ UNCHANGED <<files, bvars, restvars>>

WsNext ==
    \/ W_Accept
    \/ ClientDisconnect
    \/ W_Receive
    \/ W_Stage
    \/ W_Summary

\* ----------------------------------------------------------------- the system
\* The two handlers before their first step, over the images fs.
HandlersInit(fs) ==
    /\ files = fs
    /\ b_pc = "idle"
    /\ file_index = 0
    /\ current_step = "unbound"
    /\ b_layers = NoValue
    /\ b_final = NoValue
    /\ overall_results = <<>>
    /\ per_file_errors = <<>>
    /\ zipf = <<>>
    /\ zip_closed = FALSE
    /\ response = NoValue
    /\ b_log = <<>>
    /\ ws_pc = "accept"
    /\ ws_link = "open"
    /\ ws_index = 0
    /\ ws_current_step = "unbound"
    /\ ws_overall_results = <<>>
    /\ ws_per_file_errors = <<>>
    /\ ws_zipf = <<>>
    /\ ws_zip_closed = FALSE
    /\ ws_sent = <<>>
    /\ ws_summary = NoValue
    /\ ws_log = <<>>

\* The variables outside the handlers, at rest.
DecomposeIdle ==
    /\ d_images = NoValue
    /\ d_auto_k = NoValue
    /\ d_pc = "idle"
    /\ d_idx = 0
    /\ d_km = NoValue
    /\ d_results = <<>>
    /\ d_out = NoValue

SelectIdle ==
    /\ s_k_max = 0
    /\ s_inertia = <<>>
    /\ s_pc = "idle"
    /\ s_out = NoValue

AnchorsIdle ==
    /\ a_in = NoValue
    /\ a_pc = "idle"
    /\ a_i = 0
    /\ a_marks = <<>>

AnnotateIdle ==
    /\ l_layers = <<>>
    /\ l_pc = "idle"
    /\ l_i = 0
    /\ l_result = <<>>
    /\ l_out = NoValue

ExportIdle ==
    /\ x_files = <<>>
    /\ x_pc = "idle"
    /\ x_index = 0
    /\ x_idx = 0
    /\ x_encoded = <<>>
    /\ x_zipf = <<>>
    /\ x_results = <<>>
    /\ x_errors = <<>>

DownloadIdle ==
    /\ dl_pc = "none"
    /\ dl_file_id = "none"
    /\ dl_existed = FALSE
    /\ dl_response = NoValue

RestIdle ==
    /\ probe = "none"
    /\ DecomposeIdle
    /\ SelectIdle
    /\ AnchorsIdle
    /\ AnnotateIdle
    /\ ExportIdle
    /\ DownloadIdle

Init ==
    /\ \E fs \in FileLists : HandlersInit(fs)
    /\ RestIdle

Next == BatchNext \/ WsNext

Spec == Init /\ [][Next]_vars

\* ------------------------------------------------------------ the event loop
\* A liveness probe reaches the server while the upload is being served.
ProbeArrives ==
    /\ probe = "none"
    /\ probe' = "pending"
    /\ UNCHANGED <<files, bvars, wsvars, dvars, svars, avars, lvars,
                   xvars, dlvars>>

\* perform_liveness_checks (health.py:30-31) is a coroutine of the same
\* event loop: it runs when the loop is not held by a handler.
perform_liveness_checks ==
    /\ probe = "pending"
    /\ LoopFree
    /\ probe' = "served"
    /\ UNCHANGED <<files, bvars, wsvars, dvars, svars, avars, lvars,
                   xvars, dlvars>>

LoopNext == BatchNext \/ ProbeArrives \/ perform_liveness_checks

SpecLoop == Init /\ [][LoopNext]_vars

\* ------------------------------------------------------- download_processed
\* The identifiers a client may ask for: the file_id of the upload
\* (image.py:73) and one that no handler ever drew.
BatchFileId == "batch"

FileIds == {BatchFileId, "other"}

\* zip_path.exists() (image.py:186-187): the archive of the upload is
\* created when the ZipFile is opened (image.py:83) and nothing in the
\* program deletes a file of TEMP_DIR.
ZipPathExists(file_id) == file_id = BatchFileId /\ b_pc # "idle"

\* The decision of image.py:187-188.
RaisesNotFoundNever(file_id) == FALSE

RaisesNotFound(file_id) == ~ZipPathExists(file_id)

\* A GET /download/{file_id} is read by the event loop.
DownloadArrives ==
    /\ dl_pc = "none"
    /\ LoopFree
    /\ dl_pc' = "pending"
    /\ \E file_id \in FileIds : dl_file_id' = file_id
    /\ UNCHANGED <<dl_existed, dl_response>>
    /\ UNCHANGED <<files, bvars, wsvars, probe, dvars, svars, avars, lvars,
                   xvars>>

\* download_processed (image.py:185-189) is a plain def: it runs in a
\* worker thread, whatever the event loop is doing.  The FileResponse
\* carries the file as it is then.
download_processed ==
    /\ dl_pc = "pending"
    /\ dl_pc' = "served"
    /\ dl_existed' = ZipPathExists(dl_file_id)
    /\ dl_response' =
          IF RaisesNotFound(dl_file_id)
          THEN [status |-> 404, file |-> "none", entries |-> <<>>]
          ELSE [status |-> 200, file |-> dl_file_id, entries |-> zipf]
    /\ UNCHANGED dl_file_id
    /\ UNCHANGED <<files, bvars, wsvars, probe, dvars, svars, avars, lvars,
                   xvars>>

DownloadNext == BatchNext \/ DownloadArrives \/ download_processed

SpecDownload == Init /\ [][DownloadNext]_vars

\* ---------------------------------------------------------- layer_builder.py
\* Python values handed in as auto_k: their type and their numeric value
\* (False is 0 and True is 1; a float here has an integral value).
PyInt(n) == [type |-> "int", v |-> n]

PyBool(b) == [type |-> "bool", v |-> IF b THEN 1 ELSE 0]

PyFloat(n) == [type |-> "float", v |-> n]

PyNone == [type |-> "NoneType", v |-> 0]

Absent == [type |-> "absent", v |-> 0]

\* The largest cluster count accepted (layer_builder.py:59) and the range
\* searched by the automatic selection (layer_builder.py:58).
MaxClusters == 10

SearchKMin == 2

SearchKMax == 15

ParamInputs ==
    {PyInt(n) : n \in -1..(MaxClusters + 1)}
        \cup {PyBool(TRUE), PyBool(FALSE), PyNone, PyFloat(0), PyFloat(3),
              Absent}

\* k_means: int = Form(0, ...) (image.py:66): an absent field is 0.
Form(value) == IF value = Absent THEN PyInt(0) ELSE value

\* Determine cluster count (layer_builder.py:56-62).  `auto_k in (0, False,
\* None)` compares by ==, so 0, False and 0.0 are the same; isinstance(.,
\* int) holds for int and for bool.
ClusterCountNoUpper(auto_k) ==
    IF auto_k.type = "NoneType"
         \/ (auto_k.type \in {"int", "bool", "float"} /\ auto_k.v = 0)
    THEN [mode |-> "auto", n |-> 0]
    ELSE IF auto_k.type \in {"int", "bool"} /\ 1 <= auto_k.v
    THEN [mode |-> "manual", n |-> auto_k.v]
    ELSE [mode |-> "invalid", n |-> 0]

ClusterCount(auto_k) ==
    IF auto_k.type = "NoneType"
         \/ (auto_k.type \in {"int", "bool", "float"} /\ auto_k.v = 0)
    THEN [mode |-> "auto", n |-> 0]
    ELSE IF auto_k.type \in {"int", "bool"}
              /\ 1 <= auto_k.v /\ auto_k.v <= MaxClusters
    THEN [mode |-> "manual", n |-> auto_k.v]
    ELSE [mode |-> "invalid", n |-> 0]

\* Colours of cluster centres after lab2rgb and astype(uint8)
\* (layer_builder.py:80), as <<R, G, B>>.
Colours == {<<0, 0, 0>>, <<255, 0, 0>>, <<0, 255, 0>>}

\* brightness (layer_builder.py:95), times 1000.
Brightness(color) == 299 * color[1] + 587 * color[2] + 114 * color[3]

\* What auto_kmeans(pixels, 2, 15) gives for an image of P pixels
\* (layer_builder.py:14-27, 58): MiniBatchKMeans.fit raises when there are
\* fewer samples than clusters; otherwise the result is at least k_min + 1
\* and at most 10.
AutoOutcomes(P) ==
    IF P < SearchKMax
    THEN {[kind |-> "raised", n |-> 0]}
    ELSE {[kind |-> "returned", n |-> n] :
             n \in (SearchKMin + 1)..MaxClusters}

\* What KMeans(n_clusters=n).fit_predict gives for P pixels
\* (layer_builder.py:67-80): it raises when there are fewer samples than
\* clusters; otherwise every pixel has a label and every cluster a centre.
KMeansOutcomes(P, n) ==
    IF P < n
    THEN {[kind |-> "raised"]}
    ELSE {[kind |-> "fit", labels |-> l, centers |-> c] :
             l \in [1..P -> 1..n], c \in [1..n -> Colours]}

\* Build color layers (layer_builder.py:83-98): one layer per cluster that
\* has a member pixel, in cluster order; a layer is its colour and the
\* pixels it paints.
RECURSIVE BuildLayers(_, _)
BuildLayers(km, i) ==
    IF i = 0 THEN <<>>
    ELSE LET mask == {p \in DOMAIN km.labels : km.labels[p] = i}
         IN  IF mask = {}
             THEN BuildLayers(km, i - 1)
             ELSE Append(BuildLayers(km, i - 1),
                         [color |-> km.centers[i], mask |-> mask])

\* list.sort is stable: a layer goes behind the layers already placed whose
\* brightness is not larger.
InsertLayer(sorted, layer) ==
    LET before == {j \in 1..Len(sorted) :
                      Brightness(sorted[j].color) <= Brightness(layer.color)}
        at == Cardinality(before)
    IN  SubSeq(sorted, 1, at) \o <<layer>> \o SubSeq(sorted, at + 1, Len(sorted))

\* layers.sort(key=lambda x: x[2]) (layer_builder.py:101).
RECURSIVE SortLayers(_)
SortLayersNot(layers) == layers

SortLayers(layers) ==
    IF layers = <<>> THEN <<>>
    ELSE InsertLayer(SortLayers(SubSeq(layers, 1, Len(layers) - 1)),
                     layers[Len(layers)])

Raised(error, mode, n) ==
    [kind |-> "raised", error |-> error, mode |-> mode, n_colors |-> n,
     km |-> NoValue, layers |-> <<>>]

\* separate_color_layers for an image of P pixels (layer_builder.py:30-108):
\* every outcome the clustering library allows.
separate_color_layers(P, auto_k) ==
    LET cc == ClusterCount(auto_k)
        counts == IF cc.mode = "auto" THEN AutoOutcomes(P)
                  ELSE {[kind |-> "returned", n |-> cc.n]}
        Fit(n, km) ==
            IF km.kind = "raised" THEN Raised("KMeans", cc.mode, n)
            ELSE [kind |-> "returned", error |-> "none", mode |-> cc.mode,
                  n_colors |-> n, km |-> km,
                  layers |-> SortLayers(BuildLayers(km, n))]
    IN  IF cc.mode = "invalid"
        THEN {Raised("Invalid auto_k value", "invalid", 0)}
        ELSE UNION {IF a.kind = "raised"
                    THEN {Raised("auto_kmeans", cc.mode, 0)}
                    ELSE {Fit(a.n, km) : km \in KMeansOutcomes(P, a.n)} :
                    a \in counts}

\* What the caller of separate_color_layers_batch sees of an outcome.
Returned(o) == [kind |-> o.kind, error |-> o.error, mode |-> o.mode,
                n_colors |-> o.n_colors, layers |-> o.layers]

\* The single-image branch (layer_builder.py:130-132).
D_Single ==
    /\ d_pc = "call"
    /\ ~d_images.list
    /\ \E o \in separate_color_layers(d_images.items[1], Form(d_auto_k)) :
         /\ d_km' = o.km
         /\ d_out' = Returned(o)
    /\ d_pc' = "done"
    /\ UNCHANGED <<d_images, d_auto_k, d_idx, d_results>>
    /\ UNCHANGED <<files, bvars, wsvars, probe, svars, avars, lvars,
                   xvars, dlvars>>

\* One turn of the loop over a list (layer_builder.py:123-127, 134-136): the
\* layers of the image are appended to results; an error leaves the call.
D_Each ==
    /\ d_pc = "call"
    /\ d_images.list
    /\ d_idx < Len(d_images.items)
    /\ \E o \in separate_color_layers(d_images.items[d_idx + 1],
                                      Form(d_auto_k)) :
         IF o.kind = "raised"
         THEN /\ d_out' = Returned(o)
              /\ d_pc' = "done"
              /\ UNCHANGED <<d_idx, d_results>>
         ELSE /\ d_results' = d_results \o o.layers
              /\ d_idx' = d_idx + 1
              /\ UNCHANGED <<d_out, d_pc>>
    /\ UNCHANGED <<d_images, d_auto_k, d_km>>
    /\ UNCHANGED <<files, bvars, wsvars, probe, svars, avars, lvars,
                   xvars, dlvars>>

\* return results (layer_builder.py:128-129).
D_Return ==
    /\ d_pc = "call"
    /\ d_images.list
    /\ d_idx = Len(d_images.items)
    /\ d_out' = [kind |-> "returned", error |-> "none",
                 mode |-> ClusterCount(Form(d_auto_k)).mode,
                 n_colors |-> 0, layers |-> d_results]
    /\ d_pc' = "done"
    /\ UNCHANGED <<d_images, d_auto_k, d_idx, d_km, d_results>>
    /\ UNCHANGED <<files, bvars, wsvars, probe, svars, avars, lvars,
                   xvars, dlvars>>

\* The handlers at rest while a core function is exercised on its own.
QuietHandlers == HandlersInit(<<[fault |-> "none", layers |-> 1]>>)

\* One call of separate_color_layers_batch with a single image.
InitLayers ==
    /\ QuietHandlers
    /\ probe = "none"
    /\ d_images \in {[list |-> FALSE, items |-> <<P>>] : P \in 1..MaxPixels}
    /\ d_auto_k \in ParamInputs
    /\ d_pc = "call"
    /\ d_idx = 0
    /\ d_km = NoValue
    /\ d_results = <<>>
    /\ d_out = NoValue
    /\ SelectIdle
    /\ AnchorsIdle
    /\ AnnotateIdle
    /\ ExportIdle
    /\ DownloadIdle

SpecLayers == InitLayers /\ [][D_Single]_vars

\* One call of separate_color_layers_batch with a list of images.
InitBatch ==
    /\ QuietHandlers
    /\ probe = "none"
    /\ d_images \in {[list |-> TRUE, items |-> items] :
                        items \in UNION {[1..n -> 1..MaxPixels] :
                                            n \in 1..MaxRegions}}
    /\ d_auto_k \in ParamInputs
    /\ d_pc = "call"
    /\ d_idx = 0
    /\ d_km = NoValue
    /\ d_results = <<>>
    /\ d_out = NoValue
    /\ SelectIdle
    /\ AnchorsIdle
    /\ AnnotateIdle
    /\ ExportIdle
    /\ DownloadIdle

BatchLayersNext == D_Each \/ D_Return

SpecBatch == InitBatch /\ [][BatchLayersNext]_vars

\* ------------------------------------------------------------------ auto_kmeans
Abs(x) == IF x < 0 THEN 0 - x ELSE x

\* deltas = np.diff(inertia) (layer_builder.py:23).
Deltas(inertia) ==
    [i \in 1..(Len(inertia) - 1) |-> inertia[i + 1] - inertia[i]]

\* ratios = np.abs(deltas[1:] / (deltas[:-1] + 1e-9)) (layer_builder.py:24):
\* ratio i is |deltas[i + 1]| / |deltas[i] + 1e-9|.  Whether ratio i is
\* smaller than ratio j, by cross-multiplication; the 1e-9 decides only
\* between ratios that are equal without it.
RatioLess(deltas, i, j) ==
    LET num(n) == Abs(deltas[n + 1])
        den(n) == Abs(deltas[n])
        eps(n) == IF deltas[n] >= 0 THEN 1 ELSE 0 - 1
        major == num(i) * den(j) - num(j) * den(i)
        minor == num(i) * eps(j) - num(j) * eps(i)
    IN  major < 0 \/ (major = 0 /\ minor < 0)

\* np.argmin(ratios), counted from 0: the first smallest ratio.
ArgMin(deltas) ==
    LET R == Len(deltas) - 1
        first == CHOOSE i \in 1..R :
                    /\ \A j \in 1..R : ~RatioLess(deltas, j, i)
                    /\ \A j \in 1..(i - 1) : RatioLess(deltas, i, j)
    IN  first - 1

\* auto_kmeans(pixels, k_min, k_max) for the inertia the fits reported
\* (layer_builder.py:14-27); np.argmin raises ValueError on an empty array.
auto_kmeans(k_min, k_max, inertia) ==
    LET deltas == Deltas(inertia)
        k_auto == ArgMin(deltas) + k_min + 1
    IN  IF Len(deltas) - 1 < 1
        THEN [kind |-> "raised", k_auto |-> 0]
        ELSE [kind |-> "returned",
              k_auto |-> IF k_auto < MaxClusters THEN k_auto
                         ELSE MaxClusters]

\* The inertia list of range(k_min, k_max + 1) (layer_builder.py:16-21).
InertiaLists(k_min, k_max) ==
    [1..(IF k_max < k_min THEN 0 ELSE k_max - k_min + 1) -> 0..MaxInertia]

S_Select ==
    /\ s_pc = "call"
    /\ s_out' = auto_kmeans(SearchKMin, s_k_max, s_inertia)
    /\ s_pc' = "done"
    /\ UNCHANGED <<s_k_max, s_inertia>>
    /\ UNCHANGED <<files, bvars, wsvars, probe, dvars, avars, lvars,
                   xvars, dlvars>>

\* One call of auto_kmeans with k_min = 2 and any k_max up to the one
\* separate_color_layers passes.
InitSelect ==
    /\ QuietHandlers
    /\ probe = "none"
    /\ DecomposeIdle
    /\ s_k_max \in 0..SearchKMax
    /\ s_inertia \in InertiaLists(SearchKMin, s_k_max)
    /\ s_pc = "call"
    /\ s_out = NoValue
    /\ AnchorsIdle
    /\ AnnotateIdle
    /\ ExportIdle
    /\ DownloadIdle

SpecSelect == InitSelect /\ [][S_Select]_vars

\* -------------------------------------------------------------------- anchor.py
Max(a, b) == IF a < b THEN b ELSE a

Min(a, b) == IF a < b THEN a ELSE b

\* The indexes a[start:stop] selects on an axis of length dim: a negative
\* bound counts from the end, and both are cut to the axis.
Slice(start, stop, dim) ==
    LET norm(i) == IF i < 0 THEN Max(i + dim, 0) ELSE Min(i, dim)
    IN  {k \in 0..(dim - 1) : norm(start) <= k /\ k < norm(stop)}

\* img_array[rows, cols] = colour: the pixels <<x, y>> written.
Block(rows, cols) == {<<px, py>> : px \in cols, py \in rows}

\* positions (anchor.py:36-41), as <<x, y>>.
PositionsNoMinusOne(in) ==
    <<<<in.margin, in.margin>>,
      <<in.w - in.margin, in.margin>>,
      <<in.margin, in.h - in.margin>>,
      <<in.w - in.margin, in.h - in.margin>>>>

Positions(in) ==
    <<<<in.margin, in.margin>>,
      <<in.w - in.margin - 1, in.margin>>,
      <<in.margin, in.h - in.margin - 1>>,
      <<in.w - in.margin - 1, in.h - in.margin - 1>>>>

\* Skip if cross would go outside image bounds (anchor.py:45-52).
SkipsCrossOnly(in, x, y) ==
    \/ x < in.cross_size
    \/ x >= in.w - in.cross_size
    \/ y < in.cross_size
    \/ y >= in.h - in.cross_size

Skips(in, x, y) ==
    \/ x < in.cross_size + in.outline_width
    \/ x >= in.w - in.cross_size - in.outline_width
    \/ y < in.cross_size + in.outline_width
    \/ y >= in.h - in.cross_size - in.outline_width

\* _draw_cross (anchor.py:96-133): the pixels of the outline and of the
\* main cross.  x_start of the horizontal outline is still in force for
\* the vertical one.
OutlinePixels(in, x, y) ==
    LET extended_size == in.cross_size + in.outline_width
        x_start == Max(0, x - extended_size)
        horizontal ==
            Block(Slice(Max(0, y - in.outline_width),
                        Min(in.h, y + in.outline_width + 1), in.h),
                  Slice(x_start, Min(in.w, x + extended_size + 1), in.w))
        vertical ==
            Block(Slice(Max(0, y - extended_size),
                        Min(in.h, y + extended_size + 1), in.h),
                  Slice(x_start, Min(in.w, x + in.outline_width + 1), in.w))
    IN  horizontal \cup vertical

CrossPixels(in, x, y) ==
    LET horizontal ==
            Block(Slice(y, y + 1, in.h),
                  Slice(Max(0, x - in.cross_size),
                        Min(in.w, x + in.cross_size + 1), in.w))
        vertical ==
            Block(Slice(Max(0, y - in.cross_size),
                        Min(in.h, y + in.cross_size + 1), in.h),
                  Slice(x, x + 1, in.w))
    IN  horizontal \cup vertical

\* _get_contrasting_colors (anchor.py:72-93): black on a bright surrounding,
\* white on a dark one.
ContrastingColors(bright) ==
    IF bright THEN [cross |-> <<0, 0, 0>>, outline |-> <<255, 255, 255>>]
    ELSE [cross |-> <<255, 255, 255>>, outline |-> <<0, 0, 0>>]

\* One turn of the loop over the positions (anchor.py:44-67), color = None;
\* the brightness around the position is the image's.
A_Position ==
    /\ a_pc = "loop"
    /\ a_i < 4
    /\ a_i' = a_i + 1
    /\ LET x == Positions(a_in)[a_i + 1][1]
           y == Positions(a_in)[a_i + 1][2]
       IN  IF Skips(a_in, x, y)
           THEN UNCHANGED a_marks
           ELSE \E bright \in BOOLEAN :
                  a_marks' = Append(a_marks,
                      [position |-> a_i + 1, x |-> x, y |-> y,
                       colors |-> ContrastingColors(bright),
                       outline |-> OutlinePixels(a_in, x, y),
                       cross |-> CrossPixels(a_in, x, y)])
    /\ UNCHANGED <<a_in, a_pc>>
    /\ UNCHANGED <<files, bvars, wsvars, probe, dvars, svars, lvars,
                   xvars, dlvars>>

\* return Image.fromarray(img_array) (anchor.py:69).
A_Return ==
    /\ a_pc = "loop"
    /\ a_i = 4
    /\ a_pc' = "done"
    /\ UNCHANGED <<a_in, a_i, a_marks>>
    /\ UNCHANGED <<files, bvars, wsvars, probe, dvars, svars, lvars,
                   xvars, dlvars>>

\* One call of add_anchors on an image of any size with any non-negative
\* margin, cross_size and outline_width.
InitAnchors ==
    /\ QuietHandlers
    /\ probe = "none"
    /\ DecomposeIdle
    /\ SelectIdle
    /\ a_in \in [w : 1..MaxSide, h : 1..MaxSide, margin : 0..MaxParam,
                 cross_size : 0..MaxParam, outline_width : 0..MaxParam]
    /\ a_pc = "loop"
    /\ a_i = 0
    /\ a_marks = <<>>
    /\ AnnotateIdle
    /\ ExportIdle
    /\ DownloadIdle

AnchorsNext == A_Position \/ A_Return

SpecAnchors == InitAnchors /\ [][AnchorsNext]_vars

\* -------------------------------------------------------- add_anchors_to_layers
\* An item of `layers`: an (image, hex_color) tuple or a plain image, and
\* whether add_anchors raises for its image.
HexColors == {"#000000", "#ff0000"}

LayerItems == [tuple : BOOLEAN, hex_color : HexColors, fails : BOOLEAN]

\* What the loop appends for an item (anchor.py:150-158).
AnchoredUntagged(item) ==
    [tuple |-> item.tuple, hex_color |-> "#000000", anchored |-> TRUE]

Anchored(item) ==
    [tuple |-> item.tuple, hex_color |-> item.hex_color, anchored |-> TRUE]

\* One turn of the loop of the awaited coroutine (anchor.py:149-158).  The
\* loop has no try: an error of add_anchors leaves the call.
L_Item ==
    /\ l_pc = "loop"
    /\ l_i < Len(l_layers)
    /\ IF l_layers[l_i + 1].fails
       THEN /\ l_out' = [kind |-> "raised", result |-> <<>>]
            /\ l_pc' = "done"
            /\ UNCHANGED <<l_i, l_result>>
       ELSE /\ l_result' = Append(l_result, Anchored(l_layers[l_i + 1]))
            /\ l_i' = l_i + 1
            /\ UNCHANGED <<l_out, l_pc>>
    /\ UNCHANGED l_layers
    /\ UNCHANGED <<files, bvars, wsvars, probe, dvars, svars, avars,
                   xvars, dlvars>>

\* return result (anchor.py:160).
L_Return ==
    /\ l_pc = "loop"
    /\ l_i = Len(l_layers)
    /\ l_out' = [kind |-> "returned", result |-> l_result]
    /\ l_pc' = "done"
    /\ UNCHANGED <<l_layers, l_i, l_result>>
    /\ UNCHANGED <<files, bvars, wsvars, probe, dvars, svars, avars,
                   xvars, dlvars>>

\* One awaited call of add_anchors_to_layers.
InitAnnotate ==
    /\ QuietHandlers
    /\ probe = "none"
    /\ DecomposeIdle
    /\ SelectIdle
    /\ AnchorsIdle
    /\ l_layers \in UNION {[1..n -> LayerItems] : n \in 0..MaxItems}
    /\ l_pc = "loop"
    /\ l_i = 0
    /\ l_result = <<>>
    /\ l_out = NoValue
    /\ ExportIdle
    /\ DownloadIdle

AnnotateNext == L_Item \/ L_Return

SpecAnnotate == InitAnnotate /\ [][AnnotateNext]_vars

\* ------------------------------------------------------- the export of one batch
\* Text is a sequence of pieces; f"{v:02x}" gives two lowercase hex digits.
HexDigits ==
    <<"0", "1", "2", "3", "4", "5", "6", "7", "8", "9", "a", "b", "c", "d",
      "e", "f">>

Hex2(v) == <<HexDigits[(v \div 16) + 1], HexDigits[(v % 16) + 1]>>

\* str(n) of a small number.
Str(n) == <<"0", "1", "2", "3", "4", "5", "6", "7", "8", "9">>[n + 1]

\* color_hex (layer_builder.py:94).
color_hex(color) ==
    <<"#">> \o Hex2(color[1]) \o Hex2(color[2]) \o Hex2(color[3])

\* An annotated layer with the tag the decomposition gave it
\* (layer_builder.py:94-104, anchor.py:152-154).
TaggedLayers == {[color |-> c, hex_color |-> color_hex(c)] : c \in Colours}

\* Names of uploaded files, as base and suffix; <<>> is the empty name.
FileNames == {<<"a", ".png">>, <<"a", ".jpg">>, <<"b", ".png">>, <<>>}

\* Path(file_name).stem: the name without its suffix.
Stem(file_name) ==
    IF Len(file_name) > 1 THEN SubSeq(file_name, 1, Len(file_name) - 1)
    ELSE file_name

\* name_stem (image.py:88).
name_stem(file_name, index) ==
    IF Stem(file_name) = <<>> THEN <<"image_", Str(index)>>
    ELSE Stem(file_name)

\* rel_path (image.py:136) and the path of the manifest (image.py:148).
rel_path(stem, idx, layer_hex) ==
    stem \o <<"/", "layer_", Str(idx), "_">> \o layer_hex \o <<".png">>

manifest_path(stem) == stem \o <<"/", "manifest.json">>

ExportInputs ==
    [file_name : FileNames,
     final : UNION {[1..n -> TaggedLayers] : n \in 0..MaxExported},
     fault : {"none", "write"}]

\* The head of the for loop (image.py:85-89).
X_NextFile ==
    /\ x_pc = "next_file"
    /\ IF x_index < Len(x_files)
       THEN /\ x_index' = x_index + 1
            /\ x_pc' = "layers"
       ELSE /\ x_pc' = "done"
            /\ UNCHANGED x_index
    /\ x_idx' = 0
    /\ x_encoded' = <<>>
    /\ UNCHANGED <<x_files, x_zipf, x_results, x_errors>>
    /\ UNCHANGED <<files, bvars, wsvars, probe, dvars, svars, avars, lvars,
                   dlvars>>

\* One turn of the export loop (image.py:135-144): the PNG entry is
\* written, then the thumbnail is made; a write fault fails the thumbnail
\* of the first layer and the except block records the image
\* (image.py:153-161).
X_Layer ==
    /\ x_pc = "layers"
    /\ x_idx < Len(x_files[x_index].final)
    /\ LET file == x_files[x_index]
           idx == x_idx + 1
           layer == file.final[idx]
           path == rel_path(name_stem(file.file_name, x_index), idx,
                            layer.hex_color)
       IN  /\ x_zipf' = Append(x_zipf, [path |-> path, by |-> x_index,
                                        kind |-> "png",
                                        color |-> layer.color])
           /\ IF file.fault = "write"
              THEN /\ x_errors' = RecordError(x_errors, x_index, "export_zip")
                   /\ x_pc' = "next_file"
                   /\ UNCHANGED <<x_idx, x_encoded>>
              ELSE /\ x_encoded' = Append(x_encoded,
                          [layer_number |-> idx,
                           color_hex |-> layer.hex_color, path |-> path])
                   /\ x_idx' = idx
                   /\ UNCHANGED <<x_errors, x_pc>>
    /\ UNCHANGED <<x_files, x_index, x_results>>
    /\ UNCHANGED <<files, bvars, wsvars, probe, dvars, svars, avars, lvars,
                   dlvars>>

\* The manifest and the success record (image.py:146-150).
X_Manifest ==
    /\ x_pc = "layers"
    /\ x_idx = Len(x_files[x_index].final)
    /\ x_zipf' = Append(x_zipf,
           [path |-> manifest_path(name_stem(x_files[x_index].file_name,
                                             x_index)),
            by |-> x_index, kind |-> "manifest", layers |-> x_encoded])
    /\ x_results' = Append(x_results,
                           [image |-> x_index, layers |-> x_encoded])
    /\ x_pc' = "next_file"
    /\ UNCHANGED <<x_files, x_index, x_idx, x_encoded, x_errors>>
    /\ UNCHANGED <<files, bvars, wsvars, probe, dvars, svars, avars, lvars,
                   dlvars>>

\* The export of one batch whose images all reached the export with a list
\* of annotated layers.
InitExport ==
    /\ QuietHandlers
    /\ probe = "none"
    /\ DecomposeIdle
    /\ SelectIdle
    /\ AnchorsIdle
    /\ AnnotateIdle
    /\ x_files \in UNION {[1..n -> ExportInputs] : n \in 1..MaxFiles}
    /\ x_pc = "next_file"
    /\ x_index = 0
    /\ x_idx = 0
    /\ x_encoded = <<>>
    /\ x_zipf = <<>>
    /\ x_results = <<>>
    /\ x_errors = <<>>
    /\ DownloadIdle

ExportNext == X_NextFile \/ X_Layer \/ X_Manifest

SpecExport == InitExport /\ [][ExportNext]_vars

\* ------------------------------------------------------------ claim vocabulary
BatchDone == b_pc = "done"

WsDone == ws_pc = "closed"

ImagesOf(records) == {records[k].image : k \in DOMAIN records}

CountOf(records, image) ==
    Cardinality({k \in DOMAIN records : records[k].image = image})

\* Positions of the history at which a block of `image` was entered.
EntriesOf(log, image) == {p \in DOMAIN log : log[p][1] = image}

LastEntry(log, image) ==
    LET entries == EntriesOf(log, image)
    IN  CHOOSE p \in entries : \A q \in entries : q <= p

\* The stage of the per-image sequence a recorded step name belongs to: the
\* decoding ("preprocess") is the second half of "load & normalize image".
StageOfStep(step) == IF step = "preprocess" THEN "load_image" ELSE step

\* The stage in which an environment fault is raised.
StageOfFault(fault) ==
    CASE fault \in {"read", "decode"} -> "load_image"
      [] fault = "write" -> "export_zip"
      [] OTHER -> fault

StageRank(stage) ==
    CASE stage = "load_image" -> 1
      [] stage = "segment" -> 2
      [] stage = "classify" -> 3
      [] stage = "upscale" -> 4
      [] stage = "color_separate" -> 5
      [] stage = "add_anchors" -> 6
      [] stage = "export_zip" -> 7
      [] OTHER -> 0

\* Images the handler is through with.
BatchFinished(image) ==
    \/ image < file_index
    \/ image = file_index /\ b_pc \in {"next_file", "respond", "done"}

ExternalStages == {"load_image", "segment", "classify", "upscale",
                   "color_separate"}

\* ------------------------------------------------------------------- claims
\* C1: in the batch call an error raised in any stage of image i is caught
\* and recorded as a failure of image i, and every later image is still
\* processed: a finished batch has entered the load stage of every image of
\* the request, and every image whose stage raised has a failure record.
C1_FailureDoesNotAbortBatch ==
    /\ \A i \in 1..Len(files) :
         BatchFinished(i) /\ i \notin ImagesOf(overall_results)
             => i \in ImagesOf(per_file_errors)
    /\ BatchDone =>
         /\ file_index = Len(files)
         /\ \A i \in 1..Len(files) : EntriesOf(b_log, i) # {}
         /\ response.kind \in {"HTTPException", "body"}

C1_Witness ==
    /\ BatchDone
    /\ Len(files) = 2
    /\ files[1].fault = "segment"
    /\ 1 \in ImagesOf(per_file_errors)
    /\ EntriesOf(b_log, 2) # {}

C4_AllFailedIsFailure ==
    BatchDone =>
        /\ overall_results = <<>> =>
             /\ response.kind = "HTTPException"
             /\ response.status = "failed"
             /\ response.errors = per_file_errors
             /\ Len(response.errors) = Len(files)
        /\ response.status \in {"success", "partial_success"} =>
             response.results # <<>>

C4_Witness ==
    /\ BatchDone
    /\ Len(files) = 2
    /\ overall_results = <<>>
    /\ response.status = "failed"
    /\ Len(response.errors) = 2

\* C5: each failure record names its image and the stage that was running
\* for that image when the error was raised (the last stage entered for it);
\* an error of an external call is recorded under that call's stage, e.g.
\* an error of the segmentation call under "segment".
C5_FailureNamesStage ==
    /\ \A k \in DOMAIN per_file_errors :
         LET e == per_file_errors[k]
         IN  /\ e.image \in 1..file_index
             /\ EntriesOf(b_log, e.image) # {}
             /\ StageOfStep(e.step) = b_log[LastEntry(b_log, e.image)][2]
             /\ StageOfFault(files[e.image].fault) \in ExternalStages
                  => StageOfStep(e.step) = StageOfFault(files[e.image].fault)
    /\ \A k \in DOMAIN ws_per_file_errors :
         LET e == ws_per_file_errors[k]
         IN  /\ e.image \in 1..ws_index
             /\ EntriesOf(ws_log, e.image) # {}
             /\ StageOfStep(e.step) = ws_log[LastEntry(ws_log, e.image)][2]
             /\ ws_link = "open" /\ files[e.image].fault # "read"
                  /\ StageOfFault(files[e.image].fault) \in ExternalStages
                  => StageOfStep(e.step) = StageOfFault(files[e.image].fault)

C5_Witness ==
    /\ \E k \in DOMAIN per_file_errors :
         /\ per_file_errors[k].step = "segment"
         /\ files[per_file_errors[k].image].fault = "segment"
    /\ \E k \in DOMAIN ws_per_file_errors :
         /\ ws_per_file_errors[k].step = "segment"
         /\ files[ws_per_file_errors[k].image].fault = "segment"
    /\ \E k \in DOMAIN per_file_errors :
         /\ per_file_errors[k].step = "preprocess"
         /\ files[per_file_errors[k].image].fault = "decode"

\* C6: an image all of whose stages complete without an error reaches Done:
\* it is recorded in successes with its layers and the archive holds its
\* layer entries and its manifest; one such image with one layer gives
\* exactly one success with exactly one layer.
C6_FaultFreeImageSucceeds ==
    BatchDone =>
        \A i \in 1..Len(files) :
            files[i].fault = "none" =>
                /\ \E k \in DOMAIN overall_results :
                     overall_results[k] =
                         [image |-> i, layers |-> files[i].layers]
                /\ \A n \in 0..files[i].layers :
                     \E k \in DOMAIN zipf :
                         zipf[k] = [image |-> i, entry |-> n]

\* C7: the stages of an image run in the fixed order, each at most once and
\* each right after the previous one; no stage of an image runs after the
\* stage it failed in; the next image starts only when the previous one is
\* recorded as Done or Failed; a finished image is Done or Failed.
C7_StagesInOrder ==
    /\ Len(b_log) > 0 => b_log[1] = <<1, "load_image">>
    /\ \A p \in 1..(Len(b_log) - 1) :
         LET a == b_log[p]
             c == b_log[p + 1]
         IN  \/ /\ c[1] = a[1]
                /\ StageRank(c[2]) = StageRank(a[2]) + 1
             \/ /\ c[1] = a[1] + 1
                /\ StageRank(c[2]) = 1
                /\ a[1] \in ImagesOf(overall_results)
                               \cup ImagesOf(per_file_errors)
    /\ \A k \in DOMAIN per_file_errors :
         \A p \in EntriesOf(b_log, per_file_errors[k].image) :
             StageRank(b_log[p][2])
                 <= StageRank(StageOfStep(per_file_errors[k].step))
    /\ \A k \in DOMAIN overall_results :
         /\ EntriesOf(b_log, overall_results[k].image) # {}
         /\ b_log[LastEntry(b_log, overall_results[k].image)][2]
                = "export_zip"
    /\ \A i \in 1..Len(files) :
         BatchFinished(i) =>
             i \in ImagesOf(overall_results) \cup ImagesOf(per_file_errors)

C7_Witness ==
    /\ BatchDone
    /\ Len(files) = 2
    /\ files[1].fault = "none"
    /\ files[2].fault = "upscale"
    /\ Len(b_log) = 11

\* C8: a batch in which at least one image succeeded reports success exactly
\* when no image failed and partial success exactly when some image failed,
\* and the result carries both lists.  With "succeeded" read as C6 reads it
\* (every stage of the image completed without an error).
C8_StatusBySuccesses ==
    BatchDone /\ (\E i \in 1..Len(files) : files[i].fault = "none") =>
        /\ response.kind = "body"
        /\ response.status = "success"
               <=> \A i \in 1..Len(files) : files[i].fault = "none"
        /\ response.status = "partial_success"
               <=> \E i \in 1..Len(files) : files[i].fault # "none"
        /\ response.results = overall_results
        /\ response.errors = per_file_errors

\* C9: the successes are in the order of their images in the input, and
\* the failure records are in the order in which the failures occurred.
C9_ListsKeepOrder ==
    /\ \A p, q \in DOMAIN overall_results :
         p < q => overall_results[p].image < overall_results[q].image
    /\ \A k \in DOMAIN per_file_errors :
         EntriesOf(b_log, per_file_errors[k].image) # {}
    /\ \A p \in 1..(Len(per_file_errors) - 1) :
         LastEntry(b_log, per_file_errors[p].image)
             < LastEntry(b_log, per_file_errors[p + 1].image)

C9_Witness ==
    /\ BatchDone
    /\ Len(per_file_errors) = 2
    /\ per_file_errors[1].image = 1
    /\ per_file_errors[2].image = 2
    /\ per_file_errors[1].step # per_file_errors[2].step

\* C10: for the same images and the same outcomes of the stages, the final
\* summary of the session equals the result of the batch call: the same
\* successes, the same failures with the same stages, the same status.
\* Compared are sessions that took every image and lost no message, over
\* images whose upload can be read.
StagedFailures(errors) ==
    {<<errors[k].image, StageOfStep(errors[k].step)>> : k \in DOMAIN errors}

ErrorsDelivered ==
    Cardinality({p \in DOMAIN ws_sent : ws_sent[p].kind = "error"})

C10_SummaryEqualsBatchResult ==
    (/\ BatchDone
     /\ WsDone
     /\ ws_summary.kind = "summary"
     /\ ws_index = Len(files)
     /\ ErrorsDelivered = Len(ws_per_file_errors)
     /\ \A i \in 1..Len(files) : files[i].fault # "read")
    =>
        /\ ImagesOf(ws_summary.results) = ImagesOf(response.results)
        /\ StagedFailures(ws_summary.errors) = StagedFailures(response.errors)
        /\ ws_summary.status = response.status

\* Progress messages delivered to the client, in emission order.
ProgressEvents == SelectSeq(ws_sent, LAMBDA m : m.kind = "progress")

C12_DisconnectStopsAndCloses ==
    /\ [](ws_pc \in {"summary", "closed"} => ws_zip_closed)
    /\ [](\A r \in 1..Len(ws_overall_results) :
            LET i == ws_overall_results[r].image
            IN  /\ \A n \in 1..ws_overall_results[r].layers :
                     \E e \in 1..Len(ws_zipf) :
                        ws_zipf[e] = [image |-> i, entry |-> n]
                /\ \E e \in 1..Len(ws_zipf) : ws_zipf[e] = ManifestEntry(i))
    /\ [][ws_pc = "receive" /\ ws_link = "gone" => ws_pc' = "summary"]_vars
    /\ [][(ws_pc = "summary" \/ ws_pc = "closed")
            => (ws_index' = ws_index /\ ws_log' = ws_log
                  /\ ws_zipf' = ws_zipf
                  /\ ws_overall_results' = ws_overall_results)]_vars

C12_Witness ==
    /\ ws_pc = "closed"
    /\ ws_zip_closed
    /\ ws_summary.kind = "summary"
    /\ Len(files) = 2
    /\ ws_index = 1
    /\ ws_log # <<>>

\* The stage in which the error of an environment fault is raised; the
\* error of a single mask is raised inside the classification stage.
RaisedStage(fault) ==
    IF fault = "classify_mask" THEN "classify" ELSE StageOfFault(fault)

\* The error of image i has been raised: its stage has run.  The annotate
\* and write faults are left out: their calls are never reached with a
\* value they could fail on.
ErrorRaised(i) ==
    /\ files[i].fault \in {"read", "decode", "segment", "classify",
                           "classify_mask", "upscale", "color_separate"}
    /\ \E p \in 1..Len(b_log) : b_log[p] = <<i, RaisedStage(files[i].fault)>>

\* C13: every error raised while an image is processed, the error of a
\* single region inside a stage included, ends in a failure record made for
\* it (a record of that image naming the stage that raised), and no image
\* is a success after an error was raised in one of its stages.
C13_EveryErrorRecorded ==
    \A i \in 1..Len(files) :
        BatchFinished(i) /\ ErrorRaised(i)
            => /\ i \notin ImagesOf(overall_results)
               /\ \E e \in 1..Len(per_file_errors) :
                    /\ per_file_errors[e].image = i
                    /\ StageOfStep(per_file_errors[e].step)
                           = RaisedStage(files[i].fault)

\* The blocks of process_images that call the slow collaborators.
SlowBlocks == {"segment", "classify", "upscale", "color_separate"}

\* C14: while the batch is at a slow stage (segmentation, classification,
\* upscaling or clustering) the event loop can serve an unrelated request:
\* a liveness probe that is pending then can be answered before the stage
\* has finished.
C14_ProbeServedDuringSlowStage ==
    probe = "pending" /\ b_pc \in SlowBlocks => ENABLED perform_liveness_checks

\* Layers in non-decreasing brightness 0.299R + 0.587G + 0.114B.
Darkest2Lightest(layers) ==
    \A j \in 1..(Len(layers) - 1) :
        299 * layers[j].color[1] + 587 * layers[j].color[2]
              + 114 * layers[j].color[3]
          <= 299 * layers[j + 1].color[1] + 587 * layers[j + 1].color[2]
              + 114 * layers[j + 1].color[3]

\* C15: the layers 1..L exported for a source image, also one whose
\* segmentation gave several regions, are in non-decreasing brightness
\* order: layer n is the n-th darkest of the image.  The layers exported
\* are what separate_color_layers_batch returns for the regions.
C15_LayersOfImageSorted ==
    d_pc = "done" /\ d_images.list /\ d_out.kind = "returned"
        => Darkest2Lightest(d_out.layers)

\* C16: for a cluster count k, separate_color_layers returns at most k
\* layers, each built from a cluster that has a member pixel (its colour is
\* the centre of the cluster, its pixels are the members), sorted by
\* non-decreasing brightness of the layer colour.
C16_AtMostKSortedNonEmpty ==
    d_pc = "done" /\ ~d_images.list /\ d_out.kind = "returned"
        => /\ Len(d_out.layers) <= d_out.n_colors
           /\ d_out.mode = "manual" =>
                d_out.n_colors = d_auto_k.v /\ d_auto_k.v \in 1..10
           /\ \A j \in 1..Len(d_out.layers) :
                /\ d_out.layers[j].mask # {}
                /\ \E i \in 1..d_out.n_colors :
                     /\ d_out.layers[j].color = d_km.centers[i]
                     /\ d_out.layers[j].mask
                          = {p \in DOMAIN d_km.labels : d_km.labels[p] = i}
           /\ Darkest2Lightest(d_out.layers)

C16_Witness ==
    /\ d_pc = "done" /\ ~d_images.list /\ d_out.kind = "returned"
    /\ d_out.n_colors = 3
    /\ Len(d_out.layers) = 2
    /\ d_out.layers[1].color = d_km.centers[3]
    /\ d_out.layers[2].color = d_km.centers[1]
    /\ d_km.centers[1] # d_km.centers[3]
    /\ d_out.layers[1].mask = {p \in DOMAIN d_km.labels : d_km.labels[p] = 3}

\* C17: the cluster-count parameter: an integer in 1..10 is the cluster
\* count, unchanged; 0, an absent value (None, a missing form field) and
\* False select the count automatically; every other value makes the
\* decomposition fail with the invalid-cluster-count error and no layer.
C17_ClusterCountParameter ==
    d_pc = "done" /\ ~d_images.list
        => IF d_auto_k.type \in {"int", "bool"} /\ d_auto_k.v \in 1..10
           THEN /\ d_out.mode = "manual"
                /\ d_out.n_colors = d_auto_k.v
                /\ d_out.error # "Invalid auto_k value"
           ELSE IF d_auto_k.type \in {"absent", "NoneType"}
                     \/ (d_auto_k.type \in {"int", "bool", "float"}
                           /\ d_auto_k.v = 0)
           THEN /\ d_out.mode = "auto"
                /\ d_out.error # "Invalid auto_k value"
           ELSE /\ d_out.kind = "raised"
                /\ d_out.error = "Invalid auto_k value"
                /\ d_out.layers = <<>>

C17_Witness ==
    /\ d_pc = "done" /\ ~d_images.list
    /\ d_auto_k = PyInt(11)
    /\ d_out.kind = "raised"
    /\ d_out.error = "Invalid auto_k value"

\* C18: automatic cluster selection with kMin = 2 never fails and returns
\* a value in 2..10, for every kMax and every inertia sequence.
C18_AutoSelectionInRange ==
    s_pc = "done" => s_out.kind = "returned" /\ s_out.k_auto \in 2..10

\* The pixels of a full mark at <<x, y>>: everything within cross_size +
\* outline_width of the centre on both axes bounds it.
WithinMark(in, x, y, p) ==
    /\ Abs(p[1] - x) <= in.cross_size + in.outline_width
    /\ Abs(p[2] - y) <= in.cross_size + in.outline_width

MarkFits(in, x, y) ==
    /\ 0 <= x - in.cross_size - in.outline_width
    /\ x + in.cross_size + in.outline_width <= in.w - 1
    /\ 0 <= y - in.cross_size - in.outline_width
    /\ y + in.cross_size + in.outline_width <= in.h - 1

\* C19: for every image size and every non-negative margin, cross_size and
\* outline_width, add_anchors writes only pixels with 0 <= x < width and
\* 0 <= y < height, and a mark whose outline does not fit inside the image
\* is skipped entirely, not drawn clipped: every mark drawn fits with its
\* outline, its arms reach their full length, and the four positions that
\* were not drawn are exactly those that do not fit.
C19_MarksInsideOrSkipped ==
    /\ \A m \in 1..Len(a_marks) :
         LET mark == a_marks[m]
         IN  /\ MarkFits(a_in, mark.x, mark.y)
             /\ \A p \in mark.outline \cup mark.cross :
                  /\ 0 <= p[1] /\ p[1] < a_in.w
                  /\ 0 <= p[2] /\ p[2] < a_in.h
                  /\ WithinMark(a_in, mark.x, mark.y, p)
             /\ \A d \in 0..(a_in.cross_size + a_in.outline_width) :
                  /\ <<mark.x - d, mark.y>> \in mark.outline
                  /\ <<mark.x + d, mark.y>> \in mark.outline
                  /\ <<mark.x, mark.y - d>> \in mark.outline
                  /\ <<mark.x, mark.y + d>> \in mark.outline
    /\ a_pc = "done" =>
         \A i \in 1..4 :
            MarkFits(a_in, Positions(a_in)[i][1], Positions(a_in)[i][2])
                <=> \E m \in 1..Len(a_marks) : a_marks[m].position = i

C19_Witness ==
    /\ a_pc = "done"
    /\ a_in.outline_width = 1 /\ a_in.cross_size = 1
    /\ Len(a_marks) = 4
    /\ a_in.w = 5 /\ a_in.h = 5

\* C20: when the annotation of one layer fails inside add_anchors_to_layers
\* only that layer is dropped: the call returns the annotated versions of
\* all other layers, in their input order.
C20_FailedLayerDropped ==
    l_pc = "done" =>
        LET others == SelectSeq(l_layers, LAMBDA item : ~item.fails)
        IN  /\ l_out.kind = "returned"
            /\ Len(l_out.result) = Len(others)
            /\ \A j \in 1..Len(others) :
                 /\ l_out.result[j].anchored
                 /\ l_out.result[j].hex_color = others[j].hex_color
                 /\ l_out.result[j].tuple = others[j].tuple

\* C21: when the annotation of no layer fails, add_anchors_to_layers
\* returns a sequence as long as its input whose i-th element is the
\* annotated i-th input item and carries the i-th input's hex tag.
C21_SameLengthSameTags ==
    l_pc = "done" /\ (\A i \in 1..Len(l_layers) : ~l_layers[i].fails)
        => /\ l_out.kind = "returned"
           /\ Len(l_out.result) = Len(l_layers)
           /\ \A i \in 1..Len(l_layers) :
                /\ l_out.result[i].anchored
                /\ l_out.result[i].tuple = l_layers[i].tuple
                /\ l_layers[i].tuple
                     => l_out.result[i].hex_color = l_layers[i].hex_color

C21_Witness ==
    /\ l_pc = "done"
    /\ Len(l_layers) = 3
    /\ \A i \in 1..3 : ~l_layers[i].fails /\ l_layers[i].tuple
    /\ l_layers[1].hex_color = "#ff0000"
    /\ l_layers[2].hex_color = "#000000"
    /\ l_out.kind = "returned"
    /\ Len(l_out.result) = 3

\* C22: for each exported image with L annotated layers the archive holds
\* exactly L PNG entries, the n-th named <stem>/layer_<n>_<hex>.png with
\* <hex> the six lowercase hex digits of the n-th layer's colour, and one
\* <stem>/manifest.json whose n-th record has layer_number n, the n-th
\* layer's colour tag and the path of the n-th PNG entry.
C22_ArchiveLayout ==
    \A r \in 1..Len(x_results) :
        LET i == x_results[r].image
            file == x_files[i]
            stem == name_stem(file.file_name, i)
            L == Len(file.final)
            IsPng(e) == e.by = i /\ e.kind = "png"
            IsManifest(e) == e.by = i /\ e.kind = "manifest"
            pngs == SelectSeq(x_zipf, IsPng)
            manifests == SelectSeq(x_zipf, IsManifest)
            SixDigits(c) == Hex2(c[1]) \o Hex2(c[2]) \o Hex2(c[3])
        IN  /\ Len(pngs) = L
            /\ \A n \in 1..L :
                 pngs[n].path =
                     stem \o <<"/", "layer_", Str(n), "_">>
                          \o SixDigits(file.final[n].color) \o <<".png">>
            /\ Len(manifests) = 1
            /\ manifests[1].path = stem \o <<"/", "manifest.json">>
            /\ Len(manifests[1].layers) = L
            /\ \A n \in 1..L :
                 /\ manifests[1].layers[n].layer_number = n
                 /\ manifests[1].layers[n].color_hex = file.final[n].hex_color
                 /\ manifests[1].layers[n].path = pngs[n].path

\* C23: retrieval by identifier returns the archive exactly when an
\* archive file for that identifier exists and otherwise reports 404, and
\* it changes no state of the handlers; once the upload has ended,
\* retrieval of its identifier returns the upload's archive as the upload
\* left it.
C23_RetrievalByIdentifier ==
    /\ [](dl_pc = "served" =>
            /\ dl_response.status \in {200, 404}
            /\ dl_response.status = 200 <=> dl_existed
            /\ dl_response.status = 200 => dl_response.file = dl_file_id)
    /\ [][(dl_pc = "pending" /\ dl_pc' = "served") =>
            (/\ dl_response'.status = 200 <=> ZipPathExists(dl_file_id)
             /\ UNCHANGED <<files, bvars, wsvars>>
             /\ (b_pc = "done" /\ dl_file_id = BatchFileId) =>
                    dl_response' = [status |-> 200, file |-> BatchFileId,
                                    entries |-> zipf])]_vars

C23_Witness ==
    /\ dl_pc = "served"
    /\ dl_file_id = BatchFileId
    /\ b_pc = "done"
    /\ zip_closed
    /\ dl_existed
    /\ dl_response = [status |-> 200, file |-> BatchFileId, entries |-> zipf]

\* C24: no two images of one batch write an archive entry with the same
\* path, so no entry of a later image replaces or shadows an entry of an
\* earlier one.
C24_NoSharedPath ==
    \A j \in 1..Len(x_zipf) : \A k \in 1..Len(x_zipf) :
        x_zipf[j].by # x_zipf[k].by => x_zipf[j].path # x_zipf[k].path

\* C25: the four corner marks of add_anchors are all-or-nothing: for every
\* width, height, margin, cross_size and outline_width the fit test gives
\* the same answer at all four positions, and the returned image carries
\* either all four marks or none.
C25_AllFourOrNone ==
    /\ \A i \in 1..4 : \A j \in 1..4 :
         Skips(a_in, Positions(a_in)[i][1], Positions(a_in)[i][2])
             <=> Skips(a_in, Positions(a_in)[j][1], Positions(a_in)[j][2])
    /\ a_pc = "done" =>
         {a_marks[m].position : m \in 1..Len(a_marks)} \in {{}, 1..4}

C25_Witness ==
    /\ a_pc = "done"
    /\ a_in.w = 4 /\ a_in.h = 5
    /\ a_in.margin = 1 /\ a_in.cross_size = 1 /\ a_in.outline_width = 0
    /\ {a_marks[m].position : m \in 1..Len(a_marks)} = 1..4

====
